---- MODULE Spec2Model ----
(***************************************************************************)
(* A model of linenoise.c: the edit buffer of one interactive session      *)
(* (struct linenoiseState), the key dispatch of linenoiseEdit(), and the   *)
(* process-wide history store (history, history_len, history_max_len).     *)
(*                                                                         *)
(* Bytes are integers (their ASCII codes).  A C string is the sequence of  *)
(* bytes in front of the first NUL.  The edit buffer is the whole char     *)
(* array, indexed from 0, stale bytes behind the terminator included.      *)
(***************************************************************************)
EXTENDS Integers, Sequences, FiniteSets, TLC

VARIABLES
    pc,               \* "idle": no linenoise() call is running; "edit": inside
                      \* the while(1) loop of linenoiseEdit(), about to read a
                      \* key; "complete": inside the loop of completeLine(),
                      \* about to read a key; "undef": the call ran into
                      \* undefined behaviour
    l,                \* struct linenoiseState of the running session
    history,          \* history[0 .. history_len-1], oldest first (as strings)
    history_len,      \* static int history_len
    history_max_len,  \* static int history_max_len
    ret,              \* what the last linenoise() call returned
    op,               \* the call or key handler that ran last, and its argument
    snap,             \* the session state in front of the last Insert
    adds,             \* the lines added since the program started, as long
                      \* as linenoiseHistoryAdd() is all that has been called
    rawmode,          \* static int rawmode
    restore,          \* how the tcsetattr() of the last disableRawMode() call
                      \* ended: "ok", "failed", or "none" when the running or
                      \* last linenoise() call has not made that call
    input,            \* the bytes the terminal has sent and the program has
                      \* not read yet
    nav,              \* the run of history keys pressed last: the line they
                      \* started from and how often "previous" and "next"
                      \* were pressed
    mlmode,           \* static int mlmode: not 0 once the application has
                      \* asked for multi-line mode
    completionCallback,
                      \* static linenoiseCompletionCallback
                      \* *completionCallback: TRUE once the application has
                      \* registered a callback
    encoding          \* the encoding functions prevCharLen, nextCharLen and
                      \* readCode point to: "default", or "multibyte" once
                      \* the application has set its own

vars == <<pc, l, history, history_len, history_max_len, ret, op, snap, adds,
          rawmode, restore, input, nav, mlmode, encoding, completionCallback>>

---------------------------------------------------------------------------
(* Bounds of the model *)

\* Size of the line buffer handed to linenoiseEdit() in the specification
\* Spec (the code uses LINENOISE_MAX_LINE = 4096 bytes).
MaxLine == 3

\* The most candidates a completion callback returns.
MaxCands == 2

\* Size of the line buffer in the specification SpecEdit.
MaxLineEdit == 4

\* The history is let grow to this many entries (scratch slot included).
MaxHist == 2

\* The same for the specification SpecHist.
MaxHistApi == 4

\* Largest argument given to linenoiseHistorySetMaxLen().
MaxSetLen == 2

\* How many bytes in front of the buffer a runaway cursor is followed over.
MaxUnder == 2

\* A run of history keys is followed up to this many presses of "previous".
MaxNav == 2

---------------------------------------------------------------------------
(* Program constants *)

LINENOISE_DEFAULT_HISTORY_MAX_LEN == 100

KEY_NULL  == 0
CTRL_A    == 1
CTRL_B    == 2
CTRL_C    == 3
CTRL_D    == 4
CTRL_E    == 5
CTRL_F    == 6
CTRL_H    == 8
TAB       == 9
LINE_FEED == 10
CTRL_K    == 11
CTRL_L    == 12
ENTER     == 13
CTRL_N    == 14
CTRL_P    == 16
CTRL_T    == 20
CTRL_U    == 21
CTRL_W    == 23
ESC       == 27
BACKSPACE == 127

\* ' ', the word delimiter of the word motions and deletions
SPACE == 32

\* the terminal width getColumns() falls back to
DefaultColumns == 80

\* (size_t)-1.  size_t is 64 bits wide in the code; the model keeps 30 bits,
\* the widest the checker's integers leave room for.
SIZE_MAX == 1073741823

\* A byte of the buffer that no statement has written yet.
Indet == -1

\* static linenoiseHintsCallback *hintsCallback = NULL.
hintsCallback == FALSE


---------------------------------------------------------------------------
(* Inputs of the model *)

\* the printable bytes typed: 'a' and ' '
Chars == {97, SPACE}

\* the lines an application adds to the history: "", "a", "b"
AddLines == {<< >>, <<97>>, <<98>>}

\* the prompt is PromptLen plain characters, no escape sequence in it
PromptLen == 2

\* Size of the line buffer in the specification SpecEnc
MaxLineEnc == 4

\* the terminals of the specification SpecRender: NarrowColumns columns wide,
\* with prompts of up to MaxPrompt plain characters and a line buffer of
\* MaxLineRender bytes
NarrowColumns == 3

MaxPrompt == 4

MaxLineRender == 8

Terminals ==
    {[cols |-> NarrowColumns, plen |-> p, buflen |-> MaxLineRender] : p \in 0..MaxPrompt}

---------------------------------------------------------------------------
(* C library functions *)

Min(a, b) == IF a < b THEN a ELSE b

\* strlen(): the index of the first NUL (the array's size if it holds none)
strlen(b) ==
    LET n == Cardinality(DOMAIN b)
        nuls == {i \in DOMAIN b : b[i] = KEY_NULL}
    IN  IF nuls = {} THEN n ELSE CHOOSE i \in nuls : \A j \in nuls : i <= j

\* the C string held in the array b: what strdup(b) copies
CStr(b) == [i \in 1..strlen(b) |-> b[i - 1]]

\* the first n bytes of the array b
Prefix(b, n) == [i \in 1..n |-> b[i - 1]]

\* memmove(b+dst, b+src, n)
memmove(b, dst, src, n) ==
    [i \in DOMAIN b |-> IF i >= dst /\ i < dst + n THEN b[src + (i - dst)] ELSE b[i]]

\* memcpy(b+dst, s, Len(s)), s a sequence of bytes
memcpy(b, dst, s) ==
    [i \in DOMAIN b |-> IF i >= dst /\ i < dst + Len(s) THEN s[i - dst + 1] ELSE b[i]]

\* strncpy(b, s, n): the string s, padded with NULs to n bytes or cut at n
strncpy(b, s, n) ==
    [i \in DOMAIN b |-> IF i < n THEN (IF i < Len(s) THEN s[i + 1] ELSE KEY_NULL) ELSE b[i]]

\* snprintf(b, size, "%s", s): buf, the array afterwards (at most size-1
\* bytes of s and a NUL behind them; nothing when size is 0), and rc, the
\* value returned: the length of s, whether all of it was written or not
snprintf(b, size, s) ==
    [buf |-> IF size = 0
             THEN b
             ELSE [k \in DOMAIN b |->
                      IF k < Min(Len(s), size - 1) THEN s[k + 1]
                      ELSE IF k = Min(Len(s), size - 1) THEN KEY_NULL
                      ELSE b[k]],
     rc |-> Len(s)]

---------------------------------------------------------------------------
(* History *)
(* The store is the record H of history (the entries history[0] to          *)
(* history[history_len-1], oldest first), len (history_len) and max         *)
(* (history_max_len).  malloc() and strdup() are taken to succeed.          *)

\* linenoiseHistoryAdd() with a missing eviction: the line is appended even
\* when the store is full.
HistoryAddNoEvict(H, line) ==
    IF H.max = 0 THEN [H EXCEPT !.rc = 0]
    ELSE IF H.len # 0 /\ H.history[H.len] = line THEN [H EXCEPT !.rc = 0]
    ELSE [H EXCEPT !.history = Append(H.history, line), !.len = H.len + 1, !.rc = 1]

\* linenoiseHistoryAdd() without the test for a duplicate.
HistoryAddNoDup(H, line) ==
    IF H.max = 0 THEN [H EXCEPT !.rc = 0]
    ELSE LET h1 == IF H.len = H.max THEN Tail(H.history) ELSE H.history
             n1 == IF H.len = H.max THEN H.len - 1 ELSE H.len
         IN  [H EXCEPT !.history = Append(h1, line), !.len = n1 + 1, !.rc = 1]

\* linenoiseHistoryAdd() that drops the newest entry instead of the oldest.
HistoryAddEvictNewest(H, line) ==
    IF H.max = 0 THEN [H EXCEPT !.rc = 0]
    ELSE IF H.len # 0 /\ H.history[H.len] = line THEN [H EXCEPT !.rc = 0]
    ELSE LET h1 == IF H.len = H.max THEN SubSeq(H.history, 1, H.len - 1) ELSE H.history
             n1 == IF H.len = H.max THEN H.len - 1 ELSE H.len
         IN  [H EXCEPT !.history = Append(h1, line), !.len = n1 + 1, !.rc = 1]

\* linenoiseHistoryAdd(line): the store afterwards, rc the return value
linenoiseHistoryAdd(H, line) ==
    IF H.max = 0 THEN [H EXCEPT !.rc = 0]
    ELSE IF H.len # 0 /\ H.history[H.len] = line THEN [H EXCEPT !.rc = 0]
    ELSE LET h1 == IF H.len = H.max THEN Tail(H.history) ELSE H.history
             n1 == IF H.len = H.max THEN H.len - 1 ELSE H.len
         IN  [H EXCEPT !.history = Append(h1, line), !.len = n1 + 1, !.rc = 1]

\* linenoiseHistorySetMaxLen() that keeps the oldest entries.
HistorySetMaxLenOldest(H, len) ==
    IF len < 1 THEN [H EXCEPT !.rc = 0]
    ELSE [H EXCEPT !.history = SubSeq(H.history, 1, Min(H.len, len)),
                   !.max = len,
                   !.len = Min(H.len, len),
                   !.rc = 1]

\* linenoiseHistorySetMaxLen(len): the store afterwards, rc the return value.
\* (While no line was ever added the array is not allocated and history_len
\* is 0: the branch that copies then changes nothing.)
linenoiseHistorySetMaxLen(H, len) ==
    IF len < 1 THEN [H EXCEPT !.rc = 0]
    ELSE LET tocopy == IF len < H.len THEN len ELSE H.len
         IN  [H EXCEPT !.history = SubSeq(H.history, H.len - tocopy + 1, H.len),
                       !.max = len,
                       !.len = IF H.len > len THEN len ELSE H.len,
                       !.rc = 1]

---------------------------------------------------------------------------
(* Encoding functions and column positions *)

\* defaultPrevCharLen(): byte length and column width of the character in
\* front of pos
defaultPrevCharLen(b, buf_len, pos) == [len |-> 1, col |-> 1]

\* defaultNextCharLen(): byte length and column width of the character at pos
defaultNextCharLen(b, buf_len, pos) == [len |-> 1, col |-> 1]

\* An encoding with characters of more than one byte, as an application sets
\* it with linenoiseSetEncodingFunctions(): the character WideChar is the two
\* bytes LeadByte and TrailByte, every other character one byte, and every
\* character one column wide.  A trail byte tells where its character began,
\* a lead byte where it ends (it takes the byte behind it, if there is one).
LeadByte == 195

TrailByte == 169

WideChar == <<LeadByte, TrailByte>>

multiPrevCharLen(b, buf_len, pos) ==
    IF pos >= 2 /\ b[pos - 1] = TrailByte THEN [len |-> 2, col |-> 1] ELSE [len |-> 1, col |-> 1]

multiNextCharLen(b, buf_len, pos) ==
    IF pos + 1 < buf_len /\ b[pos] = LeadByte THEN [len |-> 2, col |-> 1] ELSE [len |-> 1, col |-> 1]

\* the encoding functions in force
prevCharLen(b, buf_len, pos) ==
    IF encoding = "default"
    THEN defaultPrevCharLen(b, buf_len, pos)
    ELSE multiPrevCharLen(b, buf_len, pos)

nextCharLen(b, buf_len, pos) ==
    IF encoding = "default"
    THEN defaultNextCharLen(b, buf_len, pos)
    ELSE multiNextCharLen(b, buf_len, pos)

RECURSIVE columnPosLoop(_, _, _, _, _)
columnPosLoop(b, buf_len, pos, off, r) ==
    IF off < pos
    THEN LET n == nextCharLen(b, buf_len, off)
         IN  columnPosLoop(b, buf_len, pos, off + n.len, r + n.col)
    ELSE r

\* columnPos(): columns from the start of the buffer to byte position pos
columnPos(b, buf_len, pos) == columnPosLoop(b, buf_len, pos, 0, 0)

\* char buf[] of promptTextColumnLen(), holding a prompt of plain characters
PromptText == [i \in 0..(MaxPrompt + PromptLen) |-> 62]

\* promptTextColumnLen(): the prompt's width (a prompt of plain characters)
promptTextColumnLen(L) == columnPosLoop(PromptText, L.plen, L.plen, 0, 0)

\* buf + k: the buffer from its byte k on
BufAt(b, k) == [i \in {j - k : j \in {d \in DOMAIN b : d >= k}} |-> b[i + k]]

RECURSIVE columnPosForMultiLineLoop(_, _, _, _, _, _, _)
columnPosForMultiLineLoop(b, buf_len, pos, cols, off, colwid, r) ==
    IF off < buf_len
    THEN LET n == nextCharLen(b, buf_len, off)
             dif == (colwid + n.col) - cols
             r1 == IF dif > 0 THEN r + dif ELSE r
             colwid1 == IF dif > 0 THEN n.col
                        ELSE IF dif = 0 THEN 0
                        ELSE colwid + n.col
         IN  IF off >= pos
             THEN r1
             ELSE columnPosForMultiLineLoop(b, buf_len, pos, cols,
                                            off + n.len, colwid1, r1 + n.col)
    ELSE r

\* columnPosForMultiLine(): columns from the start of the buffer to byte
\* position pos on a terminal of cols columns, the first row starting at
\* column ini_pos
columnPosForMultiLine(b, buf_len, pos, cols, ini_pos) ==
    columnPosForMultiLineLoop(b, buf_len, pos, cols, 0, ini_pos, 0)

\* The terminal, as far as the refresh depends on it: t is its cursor, row
\* and col counted from 0, and wrap tells that the last column has been
\* written and the next character goes to the next row.  W is its width.
\* The terminal is taken to have rows enough above and below.

\* one printable character is written
TermPut(t, W) ==
    LET t1 == IF t.wrap THEN [row |-> t.row + 1, col |-> 0, wrap |-> FALSE] ELSE t
    IN  IF t1.col >= W - 1
        THEN [t1 EXCEPT !.wrap = TRUE]
        ELSE [t1 EXCEPT !.col = t1.col + 1]

\* n printable characters are written
RECURSIVE TermWrite(_, _, _)
TermWrite(t, n, W) == IF n = 0 THEN t ELSE TermWrite(TermPut(t, W), n - 1, W)

\* "\r"
TermCR(t) == [t EXCEPT !.col = 0, !.wrap = FALSE]

\* "\n", output post-processing being off in raw mode
TermLF(t) == [t EXCEPT !.row = t.row + 1, !.wrap = FALSE]

\* ESC [ n A, n > 0
TermUp(t, n) == [t EXCEPT !.row = t.row - n, !.wrap = FALSE]

\* ESC [ n B, n > 0
TermDown(t, n) == [t EXCEPT !.row = t.row + n, !.wrap = FALSE]

\* ESC [ n C: a count of 0 moves the cursor by one column, as a count of 1
TermForward(t, n, W) ==
    [t EXCEPT !.col = Min(t.col + (IF n = 0 THEN 1 ELSE n), W - 1), !.wrap = FALSE]

\* for (j = 0; j < n; j++) "\r", ESC [ 0 K, ESC [ 1 A
RECURSIVE ClearUp(_, _)
ClearUp(t, n) == IF n <= 0 THEN t ELSE ClearUp(TermUp(TermCR(t), 1), n - 1)

\* the terminal's cursor when nothing has been written yet
TermHome == [row |-> 0, col |-> 0, wrap |-> FALSE]

\* the first loop of refreshSingleLine(): the window v (its first byte
\* start, its length len, the cursor pos within it) loses characters at its
\* left edge.  pos is a size_t: when the loop takes a character from pos 0
\* it wraps, and the loops' counts no longer end in any time that matters:
\* wrapped.
RECURSIVE ClipLeft(_, _, _)
ClipLeft(L, pcollen, v) ==
    IF pcollen + columnPos(BufAt(L.buf, v.start), v.len, v.pos) >= L.cols
    THEN LET chlen == nextCharLen(BufAt(L.buf, v.start), v.len, 0).len
         IN  IF v.pos < chlen
             THEN [v EXCEPT !.wrapped = TRUE]
             ELSE ClipLeft(L, pcollen, [v EXCEPT !.start = v.start + chlen,
                                                 !.len = v.len - chlen,
                                                 !.pos = v.pos - chlen])
    ELSE v

\* the second loop of refreshSingleLine(): the window loses characters at its
\* right edge
RECURSIVE ClipRight(_, _, _)
ClipRight(L, pcollen, v) ==
    IF ~v.wrapped /\ pcollen + columnPos(BufAt(L.buf, v.start), v.len, v.len) > L.cols
    THEN LET chlen == prevCharLen(BufAt(L.buf, v.start), v.len, v.len).len
         IN  IF v.len < chlen
             THEN [v EXCEPT !.wrapped = TRUE]
             ELSE ClipRight(L, pcollen, [v EXCEPT !.len = v.len - chlen])
    ELSE v

\* refreshSingleLine() from the clipped window v on: writes "\r", the prompt,
\* the window, ESC [ 0 K, "\r" and ESC [ col C
SingleLineWrite(L, pcollen, v) ==
    IF v.wrapped
    THEN [L EXCEPT !.view = v]
    ELSE [L EXCEPT !.view = [v EXCEPT !.col = columnPos(BufAt(L.buf, v.start), v.len, v.pos)
                                               + pcollen],
                   !.shown = [buf |-> Prefix(L.buf, L.len), pos |-> L.pos,
                              by |-> "render", rows |-> 0]]

\* refreshSingleLine() with the prompt's width pcollen: clips the window,
\* then writes it
SingleLineClip(L, pcollen) ==
    SingleLineWrite(L, pcollen,
                    ClipRight(L, pcollen,
                              ClipLeft(L, pcollen,
                                       [start |-> 0, len |-> L.len, pos |-> L.pos,
                                        wrapped |-> FALSE, col |-> 0])))

\* refreshSingleLine()
refreshSingleLine(L) == SingleLineClip(L, promptTextColumnLen(L))

\* maxrows set to the rows counted, whether more or not.
MaxRowsOverwritten(maxrows, rows) == rows

\* if (rows > (int)l->maxrows) l->maxrows = rows
UpdateMaxRows(maxrows, rows) == IF rows > maxrows THEN rows ELSE maxrows

\* refreshMultiLine(), the prompt and the buffer written from the cursor t on,
\* and "\n" and "\r" behind them when the cursor is at the end of the line and
\* at the right edge
MultiLineWrite(L, t, newline) ==
    IF newline
    THEN TermCR(TermLF(TermWrite(t, L.plen + L.len, L.cols)))
    ELSE TermWrite(t, L.plen + L.len, L.cols)

\* refreshMultiLine(), the cursor sent from t to its place: up rows, if any,
\* to the start of the row and col columns forward, if any; the row is
\* counted from the row top
MultiLineCursor(L, t, top, up, col) ==
    LET t5 == IF up > 0 THEN TermUp(t, up) ELSE t
        t6 == IF col # 0 THEN TermForward(TermCR(t5), col, L.cols) ELSE TermCR(t5)
    IN  [row |-> t6.row - top, col |-> t6.col, wrap |-> t6.wrap]

\* refreshMultiLine(), the cursor at the start of the top row with the rows
\* in use cleared
MultiLineClear(L, old_rows, rpos) ==
    TermCR(ClearUp(IF old_rows - rpos > 0 THEN TermDown(L.cur, old_rows - rpos) ELSE L.cur,
                   old_rows - 1))

\* refreshMultiLine() with the prompt's width pcollen and the columns colpos
\* and colpos2 that columnPosForMultiLine() gave for the end of the line and
\* for the cursor
MultiLineRefresh(L, pcollen, colpos, colpos2, top) ==
    LET rows == (pcollen + colpos + L.cols - 1) \div L.cols
        newline == L.pos # 0 /\ L.pos = L.len /\ (colpos2 + pcollen) % L.cols = 0
        rows2 == IF newline THEN rows + 1 ELSE rows
        maxrows1 == UpdateMaxRows(L.maxrows, rows)
        maxrows2 == IF newline THEN UpdateMaxRows(maxrows1, rows2) ELSE maxrows1
        rpos2 == (pcollen + colpos2 + L.cols) \div L.cols
        col == (pcollen + colpos2) % L.cols
    IN  [L EXCEPT !.maxrows = maxrows2,
                  !.oldcolpos = colpos2,
                  !.cur = MultiLineCursor(L, MultiLineWrite(L, top, newline), top.row,
                                          rows2 - rpos2, col),
                  !.top = top.row,
                  !.forward = IF col # 0 THEN col ELSE -1,
                  !.shown = [buf |-> Prefix(L.buf, L.len), pos |-> L.pos,
                             by |-> "render", rows |-> rows]]

\* refreshMultiLine()
refreshMultiLine(L) ==
    MultiLineRefresh(L, promptTextColumnLen(L),
                     columnPosForMultiLine(L.buf, L.len, L.len, L.cols,
                                           promptTextColumnLen(L)),
                     columnPosForMultiLine(L.buf, L.len, L.pos, L.cols,
                                           promptTextColumnLen(L)),
                     MultiLineClear(L, L.maxrows,
                                    (promptTextColumnLen(L) + L.oldcolpos + L.cols)
                                        \div L.cols))

\* refreshLine()
refreshLine(L) == IF mlmode # 0 THEN refreshMultiLine(L) ELSE refreshSingleLine(L)

---------------------------------------------------------------------------
(* Editing functions.  Each takes the session state L and gives the state   *)
(* afterwards.                                                              *)

\* the condition of linenoiseEditInsert() under which the inserted bytes are
\* written straight to the terminal, with the write's result checked
FastPath(L) ==
    /\ mlmode = 0
    /\ promptTextColumnLen(L) + columnPos(L.buf, L.len, L.len) < L.cols
    /\ ~hintsCallback

\* write(l->ofd,cbuf,clen) of linenoiseEditInsert(): the terminal puts the
\* bytes where its cursor is and moves the cursor behind them
WriteAtCursor(L, cbuf) ==
    LET clen == Len(cbuf)
        d == L.shown
    IN  [L EXCEPT !.shown = [d EXCEPT !.buf = SubSeq(d.buf, 1, d.pos) \o cbuf
                                              \o SubSeq(d.buf, d.pos + clen + 1, Len(d.buf)),
                                      !.pos = d.pos + clen,
                                      !.by = "render"],
                  !.view = [L.view EXCEPT !.len = L.view.len + clen,
                                          !.pos = L.view.pos + clen,
                                          !.col = L.view.col + clen]]

\* linenoiseEditInsert() with the capacity test off by one.
EditInsertOffByOne(L, cbuf, wok) ==
    LET clen == Len(cbuf) IN
    IF L.len + clen <= L.buflen + 1
    THEN LET b1 == memmove(L.buf, L.pos + clen, L.pos, Min(L.len - L.pos, L.buflen - L.pos))
             b2 == memcpy(b1, L.pos, cbuf)
             L1 == [L EXCEPT !.buf = b2, !.pos = L.pos + clen, !.len = L.len + clen]
         IN  [l |-> L1, rc |-> 0]
    ELSE [l |-> L, rc |-> 0]

\* linenoiseEditInsert(l, cbuf, clen): the state afterwards and the return
\* value; wok tells whether the fast path's write() succeeds.
linenoiseEditInsert(L, cbuf, wok) ==
    LET clen == Len(cbuf) IN
    IF L.len + clen <= L.buflen
    THEN IF L.len = L.pos
         THEN LET b1 == memcpy(L.buf, L.pos, cbuf)
                  L1 == [L EXCEPT !.buf = [b1 EXCEPT ![L.len + clen] = KEY_NULL],
                                  !.pos = L.pos + clen,
                                  !.len = L.len + clen]
              IN  IF FastPath(L1)
                  THEN IF wok
                       THEN [l |-> WriteAtCursor(L1, cbuf), rc |-> 0]
                       ELSE [l |-> L1, rc |-> -1]
                  ELSE [l |-> refreshLine(L1), rc |-> 0]
         ELSE LET b1 == memmove(L.buf, L.pos + clen, L.pos, L.len - L.pos)
                  b2 == memcpy(b1, L.pos, cbuf)
                  L1 == [L EXCEPT !.buf = [b2 EXCEPT ![L.len + clen] = KEY_NULL],
                                  !.pos = L.pos + clen,
                                  !.len = L.len + clen]
              IN  [l |-> refreshLine(L1), rc |-> 0]
    ELSE [l |-> L, rc |-> 0]

\* linenoiseEditMoveLeft() without its call of refreshLine().
EditMoveLeftNoRefresh(L) ==
    IF L.pos > 0
    THEN [L EXCEPT !.pos = L.pos - prevCharLen(L.buf, L.len, L.pos).len]
    ELSE L

\* linenoiseEditMoveLeft()
linenoiseEditMoveLeft(L) ==
    IF L.pos > 0
    THEN refreshLine([L EXCEPT !.pos = L.pos - prevCharLen(L.buf, L.len, L.pos).len])
    ELSE L

\* linenoiseEditMoveRight()
linenoiseEditMoveRight(L) ==
    IF L.pos # L.len
    THEN refreshLine([L EXCEPT !.pos = L.pos + nextCharLen(L.buf, L.len, L.pos).len])
    ELSE L

\* while (p < len && (buf[p] == ' ') == sp) ++p
RECURSIVE SkipForward(_, _, _, _)
SkipForward(b, len, p, sp) ==
    IF p < len /\ ((b[p] = SPACE) = sp) THEN SkipForward(b, len, p + 1, sp) ELSE p

\* while (p > 0 && (buf[p-1] == ' ') == sp) --p
RECURSIVE SkipBackward(_, _, _)
SkipBackward(b, p, sp) ==
    IF p > 0 /\ ((b[p - 1] = SPACE) = sp) THEN SkipBackward(b, p - 1, sp) ELSE p

\* while (p > 0 && buf[p] == ' ') --p
RECURSIVE SkipSpacesAt(_, _)
SkipSpacesAt(b, p) ==
    IF p > 0 /\ b[p] = SPACE THEN SkipSpacesAt(b, p - 1) ELSE p

\* linenoiseEditMoveWordEnd()
linenoiseEditMoveWordEnd(L) ==
    IF L.len = 0 \/ L.pos >= L.len THEN L
    ELSE LET p1 == IF L.buf[L.pos] = SPACE
                   THEN SkipForward(L.buf, L.len, L.pos, TRUE)
                   ELSE L.pos
             p2 == SkipForward(L.buf, L.len, p1, FALSE)
         IN  refreshLine([L EXCEPT !.pos = p2])

\* linenoiseEditMoveWordStart().  With the cursor at 0 the function reads
\* buf[-1], a byte that is not part of the buffer: pre is the value found
\* there.  When it is a space the cursor is decremented below 0 and wraps to
\* SIZE_MAX; the loops then walk down over memory in front of the buffer, and
\* k is the number of further decrements that memory makes them take.
linenoiseEditMoveWordStart(L, pre, k) ==
    IF L.len = 0 THEN L
    ELSE IF L.pos = 0
    THEN IF pre = SPACE
         THEN [L EXCEPT !.pos = SIZE_MAX - k]
         ELSE refreshLine(L)
    ELSE LET p1 == IF L.buf[L.pos - 1] = SPACE THEN L.pos - 1 ELSE L.pos
             p2 == IF L.buf[p1] = SPACE THEN SkipSpacesAt(L.buf, p1) ELSE p1
             p3 == SkipBackward(L.buf, p2, FALSE)
         IN  refreshLine([L EXCEPT !.pos = p3])

\* linenoiseEditMoveHome()
linenoiseEditMoveHome(L) ==
    IF L.pos # 0 THEN refreshLine([L EXCEPT !.pos = 0]) ELSE L

\* linenoiseEditMoveEnd()
linenoiseEditMoveEnd(L) ==
    IF L.pos # L.len THEN refreshLine([L EXCEPT !.pos = L.len]) ELSE L

\* linenoiseEditDelete() that deletes the character in front of the cursor
\* when there is none at it.
EditDeleteOrBackspace(L) ==
    IF L.len > 0 /\ L.pos < L.len
    THEN LET b1 == memmove(L.buf, L.pos, L.pos + 1, L.len - L.pos - 1)
         IN  [L EXCEPT !.buf = [b1 EXCEPT ![L.len - 1] = KEY_NULL], !.len = L.len - 1]
    ELSE IF L.len > 0
    THEN [L EXCEPT !.buf = [L.buf EXCEPT ![L.len - 1] = KEY_NULL],
                   !.pos = L.pos - 1, !.len = L.len - 1]
    ELSE L

\* linenoiseEditDelete()
linenoiseEditDelete(L) ==
    IF L.len > 0 /\ L.pos < L.len
    THEN LET chlen == nextCharLen(L.buf, L.len, L.pos).len
             b1 == memmove(L.buf, L.pos, L.pos + chlen, L.len - L.pos - chlen)
         IN  refreshLine([L EXCEPT !.buf = [b1 EXCEPT ![L.len - chlen] = KEY_NULL],
                                   !.len = L.len - chlen])
    ELSE L

\* linenoiseEditBackspace() that moves the cursor and leaves the bytes.
EditBackspaceNoShift(L) ==
    IF L.pos > 0 /\ L.len > 0
    THEN [L EXCEPT !.buf = [L.buf EXCEPT ![L.len - 1] = KEY_NULL],
                   !.pos = L.pos - 1, !.len = L.len - 1]
    ELSE L

\* linenoiseEditBackspace()
linenoiseEditBackspace(L) ==
    IF L.pos > 0 /\ L.len > 0
    THEN LET chlen == prevCharLen(L.buf, L.len, L.pos).len
             b1 == memmove(L.buf, L.pos - chlen, L.pos, L.len - L.pos)
         IN  refreshLine([L EXCEPT !.buf = [b1 EXCEPT ![L.len - chlen] = KEY_NULL],
                                   !.pos = L.pos - chlen,
                                   !.len = L.len - chlen])
    ELSE L

\* linenoiseEditDeletePrevWord() without its first loop, the one that steps
\* over the spaces in front of the cursor.
EditDeletePrevWordNoSpaces(L) ==
    LET old_pos == L.pos
        p2 == SkipBackward(L.buf, L.pos, FALSE)
        diff == old_pos - p2
        b1 == memmove(L.buf, p2, old_pos, L.len - old_pos + 1)
    IN  refreshLine([L EXCEPT !.buf = b1, !.pos = p2, !.len = L.len - diff])

\* linenoiseEditDeletePrevWord()
linenoiseEditDeletePrevWord(L) ==
    LET old_pos == L.pos
        p1 == SkipBackward(L.buf, L.pos, TRUE)
        p2 == SkipBackward(L.buf, p1, FALSE)
        diff == old_pos - p2
        b1 == memmove(L.buf, p2, old_pos, L.len - old_pos + 1)
    IN  refreshLine([L EXCEPT !.buf = b1, !.pos = p2, !.len = L.len - diff])

\* linenoiseEditDeleteNextWord()
linenoiseEditDeleteNextWord(L) ==
    LET e1 == SkipForward(L.buf, L.len, L.pos, TRUE)
        next_word_end == SkipForward(L.buf, L.len, e1, FALSE)
        b1 == memmove(L.buf, L.pos, next_word_end, L.len - next_word_end)
    IN  refreshLine([L EXCEPT !.buf = b1, !.len = L.len - (next_word_end - L.pos)])

\* case CTRL_T of linenoiseEdit(): swap the character at the cursor with the
\* one in front of it
EditTranspose(L) ==
    IF L.pos > 0 /\ L.pos < L.len
    THEN LET b1 == [L.buf EXCEPT ![L.pos - 1] = L.buf[L.pos], ![L.pos] = L.buf[L.pos - 1]]
         IN  refreshLine([L EXCEPT !.buf = b1,
                                   !.pos = IF L.pos # L.len - 1 THEN L.pos + 1 ELSE L.pos])
    ELSE L

\* case CTRL_U of linenoiseEdit(): delete the whole line
EditKillLine(L) ==
    refreshLine([L EXCEPT !.buf = [L.buf EXCEPT ![0] = KEY_NULL], !.pos = 0, !.len = 0])

\* case CTRL_K of linenoiseEdit(): delete from the cursor to the end
EditKillToEnd(L) ==
    refreshLine([L EXCEPT !.buf = [L.buf EXCEPT ![L.pos] = KEY_NULL], !.len = L.pos])

LINENOISE_HISTORY_NEXT == 0
LINENOISE_HISTORY_PREV == 1

\* linenoiseEditHistoryNext() that saves the buffer in the newest slot,
\* whatever the history index is.
HistoryNextNewestSlot(L, h, hlen, dir) ==
    IF hlen > 1
    THEN LET h1 == [h EXCEPT ![hlen] = CStr(L.buf)]
             idx == L.history_index + (IF dir = LINENOISE_HISTORY_PREV THEN 1 ELSE -1)
         IN  IF idx < 0
             THEN [l |-> [L EXCEPT !.history_index = 0], history |-> h1]
             ELSE IF idx >= hlen
             THEN [l |-> [L EXCEPT !.history_index = hlen - 1], history |-> h1]
             ELSE LET b1 == strncpy(L.buf, h1[hlen - idx], L.buflen)
                      b2 == [b1 EXCEPT ![L.buflen - 1] = KEY_NULL]
                  IN  [l |-> [L EXCEPT !.buf = b2,
                                       !.len = strlen(b2),
                                       !.pos = strlen(b2),
                                       !.history_index = idx],
                       history |-> h1]
    ELSE [l |-> L, history |-> h]

\* linenoiseEditHistoryNext(l, dir): the session state and the entries of
\* the history afterwards (hlen is history_len)
linenoiseEditHistoryNext(L, h, hlen, dir) ==
    IF hlen > 1
    THEN LET h1 == [h EXCEPT ![hlen - L.history_index] = CStr(L.buf)]
             idx == L.history_index + (IF dir = LINENOISE_HISTORY_PREV THEN 1 ELSE -1)
         IN  IF idx < 0
             THEN [l |-> [L EXCEPT !.history_index = 0], history |-> h1]
             ELSE IF idx >= hlen
             THEN [l |-> [L EXCEPT !.history_index = hlen - 1], history |-> h1]
             ELSE LET b1 == strncpy(L.buf, h1[hlen - idx], L.buflen)
                      b2 == [b1 EXCEPT ![L.buflen - 1] = KEY_NULL]
                  IN  [l |-> refreshLine([L EXCEPT !.buf = b2,
                                                   !.len = strlen(b2),
                                                   !.pos = strlen(b2),
                                                   !.history_index = idx]),
                       history |-> h1]
    ELSE [l |-> L, history |-> h]

---------------------------------------------------------------------------
(* Key dispatch of linenoiseEdit() *)

\* the switch on the byte read at the top of the loop
TopDispatch(c) ==
    CASE c = LINE_FEED \/ c = ENTER -> "Enter"
      [] c = CTRL_C -> "CtrlC"
      [] c = BACKSPACE \/ c = 8 -> "Backspace"
      [] c = CTRL_D -> "CtrlD"
      [] c = CTRL_T -> "Transpose"
      [] c = CTRL_B -> "MoveLeft"
      [] c = CTRL_F -> "MoveRight"
      [] c = CTRL_P -> "HistoryPrev"
      [] c = CTRL_N -> "HistoryNext"
      [] c = ESC -> "Escape"
      [] c = CTRL_U -> "KillLine"
      [] c = CTRL_K -> "KillToEnd"
      [] c = CTRL_A -> "MoveHome"
      [] c = CTRL_E -> "MoveEnd"
      [] c = CTRL_L -> "ClearScreen"
      [] c = CTRL_W -> "DeletePrevWord"
      [] OTHER -> "Insert"

\* case ESC with every digit, not only '0', taken for the first of two bytes.
EscConsumedAnyDigit(seq) ==
    IF seq[1] # 91 /\ ~(seq[1] >= 48 /\ seq[1] <= 57) THEN 1
    ELSE IF seq[1] = 91 /\ seq[2] >= 48 /\ seq[2] <= 57 THEN 3
    ELSE 2

\* how many bytes case ESC reads after the ESC, given the bytes that follow
\* ('[' is 91, '0' is 48, '9' is 57)
EscConsumed(seq) ==
    IF seq[1] # 91 /\ seq[1] # 48 THEN 1
    ELSE IF seq[1] = 91 /\ seq[2] >= 48 /\ seq[2] <= 57 THEN 3
    ELSE 2

\* case ESC with every ESC [ digit ~ taken for the Delete key.
EscDispatchAnyTilde(seq) ==
    IF seq[1] # 91 /\ seq[1] # 48
    THEN CASE seq[1] = 102 -> "MoveWordEnd"
           [] seq[1] = 98 -> "MoveWordStart"
           [] seq[1] = 100 -> "DeleteNextWord"
           [] OTHER -> "None"
    ELSE IF seq[1] = 91
    THEN IF seq[2] >= 48 /\ seq[2] <= 57
         THEN IF seq[3] = 126 THEN "Delete" ELSE "None"
         ELSE CASE seq[2] = 65 -> "HistoryPrev"
                [] seq[2] = 66 -> "HistoryNext"
                [] seq[2] = 67 -> "MoveRight"
                [] seq[2] = 68 -> "MoveLeft"
                [] seq[2] = 72 -> "MoveHome"
                [] seq[2] = 70 -> "MoveEnd"
                [] seq[2] = 100 -> "DeleteNextWord"
                [] OTHER -> "None"
    ELSE "None"

\* case ESC: the handler the bytes after the ESC select
\* ('f' 102, 'b' 98, 'd' 100, '~' 126, '3' 51, 'A'..'D' 65..68, 'H' 72,
\*  'F' 70, 'O' 79, '1' 49, '4' 52)
EscDispatch(seq) ==
    IF seq[1] # 91 /\ seq[1] # 48
    THEN CASE seq[1] = 102 -> "MoveWordEnd"
           [] seq[1] = 98 -> "MoveWordStart"
           [] seq[1] = 100 -> "DeleteNextWord"
           [] OTHER -> "None"
    ELSE IF seq[1] = 91
    THEN IF seq[2] >= 48 /\ seq[2] <= 57
         THEN IF seq[3] = 126 /\ seq[2] = 51 THEN "Delete" ELSE "None"
         ELSE CASE seq[2] = 65 -> "HistoryPrev"
                [] seq[2] = 66 -> "HistoryNext"
                [] seq[2] = 67 -> "MoveRight"
                [] seq[2] = 68 -> "MoveLeft"
                [] seq[2] = 72 -> "MoveHome"
                [] seq[2] = 70 -> "MoveEnd"
                [] seq[2] = 100 -> "DeleteNextWord"
                [] seq[2] = 49 -> "MoveHome"
                [] seq[2] = 52 -> "MoveEnd"
                [] OTHER -> "None"
    ELSE IF seq[1] = 79
    THEN CASE seq[2] = 72 -> "MoveHome"
           [] seq[2] = 70 -> "MoveEnd"
           [] OTHER -> "None"
    ELSE "None"

\* the handler one iteration of the loop runs on the bytes it reads
Handler(keys) ==
    IF keys[1] = ESC THEN EscDispatch(Tail(keys)) ELSE TopDispatch(keys[1])

\* the single bytes typed
SingleKeys ==
    {ENTER, LINE_FEED, CTRL_C, BACKSPACE, CTRL_H, CTRL_D, CTRL_T, CTRL_B,
     CTRL_F, CTRL_P, CTRL_N, CTRL_U, CTRL_K, CTRL_A, CTRL_E, CTRL_L, CTRL_W}
    \cup Chars

\* the bytes typed after an ESC
EscSeqs ==
    {<<102>>, <<98>>, <<100>>, <<79>>, <<120>>,
     <<91, 65>>, <<91, 66>>, <<91, 67>>, <<91, 68>>, <<91, 72>>, <<91, 70>>,
     <<91, 100>>, <<91, 120>>, <<48, 72>>, <<48, 70>>,
     <<91, 51, 126>>, <<91, 49, 126>>, <<91, 52, 126>>, <<91, 51, 120>>}

\* what one iteration of the loop reads: a byte, or ESC and the bytes case ESC
\* reads after it
KeySeqs ==
    {<<c>> : c \in SingleKeys}
    \cup {<<ESC>> \o s : s \in {t \in EscSeqs : Len(t) = EscConsumed(t)}}

\* the handlers these keys run
Handlers == {Handler(k) : k \in KeySeqs}

\* What the terminal sends in one go: one key's bytes; the keypad's Home and
\* End in their alternate encoding, ESC O H and ESC O F; a key with an 'a'
\* typed right behind it (Ctrl-C a, Delete a); and ESC 5 a, an ESC with a
\* digit other than '0' and one more byte.
TypedSeqs ==
    KeySeqs \cup {<<ESC, 79, 72>>, <<ESC, 79, 70>>,
                  <<CTRL_C, 97>>, <<ESC, 91, 51, 126, 97>>, <<ESC, 53, 97>>}

\* the bytes one iteration of the loop reads from the byte stream s:
\* readCode() reads one byte, case ESC the bytes it asks for
ReadKeys(s) ==
    IF s[1] = ESC THEN SubSeq(s, 1, 1 + EscConsumed(Tail(s))) ELSE <<s[1]>>

\* the bytes of the stream s that iteration leaves unread
Unread(s) == SubSeq(s, Len(ReadKeys(s)) + 1, Len(s))

\* the byte streams that make an iteration run the handler h
KeysOf == [h \in Handlers |-> {s \in TypedSeqs : Handler(ReadKeys(s)) = h}]

\* the printable bytes the loop can read: those typed and the 'H' and 'F'
\* that end the keypad's sequences
Printable == Chars \cup {72, 70}

\* The byte streams the next iteration can find when it runs the handler h:
\* the unread bytes if there are any, else what the user types next.
Streams(h) ==
    IF input # << >>
    THEN IF Handler(ReadKeys(input)) = h THEN {input} ELSE {}
    ELSE IF h \in Handlers THEN KeysOf[h] ELSE {}

---------------------------------------------------------------------------
(* State *)

\* What a render leaves behind, kept with the session: shown, the content and
\* the cursor the last render was given, how it was made ("prompt": only the
\* prompt has been written; "render": a refresh or the fast path's write) and
\* the rows a multi-line refresh counted for the content; view, the window
\* the single-line refresh has clipped and the column it sent the cursor to;
\* and, followed in multi-line mode only: cur, the terminal's cursor, its row
\* counted from the row the prompt was last written to; top, that row counted
\* from the row the prompt was written to before; forward, the count of the
\* last cursor-forward sequence, -1 when a bare "\r" was written.
NoShown == [buf |-> << >>, pos |-> 0, by |-> "prompt", rows |-> 0]

NoView == [start |-> 0, len |-> 0, pos |-> 0, wrapped |-> FALSE, col |-> 0]

\* Kept with the session as well are lc and i of completeLine(), the
\* candidates the callback has returned and the index of the one previewed
\* (lc is empty outside completeLine()), and prior.
\* prior, the history store a session found when it started, as far as it is
\* followed: not followed
NoPrior == [history |-> << >>, len |-> -1]

NoSession ==
    [buf |-> << >>, buflen |-> 0, plen |-> 0, pos |-> 0, oldcolpos |-> 0,
     len |-> 0, cols |-> 0, maxrows |-> 0, history_index |-> 0,
     shown |-> NoShown, view |-> NoView, cur |-> TermHome, top |-> 0, forward |-> -1,
     prior |-> NoPrior, lc |-> << >>, i |-> 0]

NoSnap == [buf |-> << >>, len |-> 0, pos |-> 0, taken |-> FALSE]

NoRet == [kind |-> "none", count |-> 0, line |-> << >>, errno |-> "none"]

\* nav, when the key pressed last was not a history key
NoNav == [live |-> << >>, up |-> 0, down |-> 0]

\* adds, once something else than linenoiseHistoryAdd() was called
Forgotten == <<<<-1>>>>

\* op: the call's name, its argument, its return value and history_len in
\* front of it
Call(name, arg, rc) == [name |-> name, arg |-> arg, rc |-> rc, pre |-> history_len]

\* the history store as the history functions take it
Store == [history |-> history, len |-> history_len, max |-> history_max_len, rc |-> 0]

Init ==
    /\ pc = "idle"
    /\ l = NoSession
    /\ history = << >>
    /\ history_len = 0
    /\ history_max_len = LINENOISE_DEFAULT_HISTORY_MAX_LEN
    /\ ret = NoRet
    /\ op = [name |-> "init", arg |-> << >>, rc |-> 0, pre |-> 0]
    /\ snap = NoSnap
    /\ adds = << >>
    /\ rawmode = 0
    /\ restore = "none"
    /\ input = << >>
    /\ nav = NoNav
    /\ mlmode = 0
    /\ encoding = "default"
    /\ completionCallback = FALSE

---------------------------------------------------------------------------
(* The history API, called by the application between two reads *)

\* linenoiseHistoryAdd(line), while the store stays within bound entries
HistoryAddCall(line, bound) ==
    /\ pc = "idle"
    /\ LET H == linenoiseHistoryAdd(Store, line)
       IN  /\ H.len <= bound
           /\ history' = H.history
           /\ history_len' = H.len
           /\ op' = Call("HistoryAdd", line, H.rc)
    /\ adds' = IF adds # Forgotten /\ Len(adds) < 3 THEN Append(adds, line) ELSE Forgotten
    /\ snap' = NoSnap
    /\ UNCHANGED <<pc, l, history_max_len, ret, rawmode, restore, input, nav, mlmode, encoding, completionCallback>>

\* linenoiseHistorySetMaxLen(len)
HistorySetMaxLenCall(len) ==
    /\ pc = "idle"
    /\ LET H == linenoiseHistorySetMaxLen(Store, len)
       IN  /\ history' = H.history
           /\ history_len' = H.len
           /\ history_max_len' = H.max
           /\ op' = Call("HistorySetMaxLen", <<len>>, H.rc)
    /\ adds' = Forgotten
    /\ snap' = NoSnap
    /\ UNCHANGED <<pc, l, ret, rawmode, restore, input, nav, mlmode, encoding, completionCallback>>

---------------------------------------------------------------------------
(* linenoise() -> linenoiseRaw() -> linenoiseEdit() *)

\* linenoise() that returns the buffer whatever linenoiseEdit()'s count is.
ReturnBuffer(count, b, err) ==
    [kind |-> "line", count |-> count, line |-> CStr(b), errno |-> err]

\* what linenoise() returns for linenoiseEdit()'s count: NULL for -1, else a
\* copy of the string in buf.  err is the value the call has left in errno
\* ("none" when no statement of the call has set it).
Return(count, b, err) ==
    IF count = -1
    THEN [kind |-> "null", count |-> count, line |-> << >>, errno |-> err]
    ELSE [kind |-> "line", count |-> count, line |-> CStr(b), errno |-> err]

\* disableRawMode() that leaves the flag as it is.
DisableRawModeKeepsFlag(rm, rok) == rm

\* disableRawMode(): rawmode afterwards; rok tells whether tcsetattr()
\* succeeds in putting the terminal back
disableRawMode(rm, rok) == IF rm # 0 /\ rok THEN 0 ELSE rm

\* linenoiseRaw() after linenoiseEdit(): disableRawMode().  A tcsetattr()
\* with TCSAFLUSH that succeeds discards the input not yet read.
LeaveRawMode(unread) ==
    \E rok \in BOOLEAN :
       /\ rawmode' = disableRawMode(rawmode, rok)
       /\ restore' = IF rawmode = 0 THEN "none" ELSE IF rok THEN "ok" ELSE "failed"
       /\ input' = IF rawmode # 0 /\ rok THEN << >> ELSE unread

\* linenoiseSetEncodingFunctions() with the functions of the encoding enc
SetEncodingFunctions(enc) ==
    /\ pc = "idle"
    /\ encoding' = enc
    /\ op' = Call("SetEncodingFunctions", <<>>, 0)
    /\ snap' = NoSnap
    /\ UNCHANGED <<pc, l, history, history_len, history_max_len, ret, adds,
                   rawmode, restore, input, nav, mlmode, completionCallback>>

\* linenoiseSetMultiLine(ml)
SetMultiLine(ml) ==
    /\ pc = "idle"
    /\ mlmode' = ml
    /\ op' = Call("SetMultiLine", <<ml>>, 0)
    /\ snap' = NoSnap
    /\ UNCHANGED <<pc, l, history, history_len, history_max_len, ret, adds,
                   rawmode, restore, input, nav, encoding, completionCallback>>

\* linenoise() on a terminal that enableRawMode() cannot switch (isatty(),
\* tcgetattr() or tcsetattr() fails): linenoiseRaw() returns -1 at once
EnableRawModeFail ==
    /\ pc = "idle"
    /\ ret' = Return(-1, << >>, "ENOTTY")
    /\ op' = Call("EnableRawModeFail", << >>, -1)
    /\ restore' = "none"
    /\ snap' = NoSnap
    /\ adds' = Forgotten
    /\ UNCHANGED <<pc, l, history, history_len, history_max_len, rawmode, input, nav, mlmode, encoding, completionCallback>>

\* linenoiseRaw() and linenoiseEdit() up to its loop: enableRawMode() sets
\* rawmode (its tcsetattr() with TCSAFLUSH discards the unread input), the
\* state is set up, the scratch entry "" is added to the history and the
\* prompt is written (wok: the write succeeds).  buflen is the size of the
\* line buffer; track says whether the store the session finds is followed.
EditStartTracking(buflen, bound, wok, cols, plen, track) ==
    /\ pc = "idle"
    /\ buflen > 0
    /\ LET H == linenoiseHistoryAdd(Store, << >>)
       IN  /\ H.len <= bound
           /\ history' = H.history
           /\ history_len' = H.len
    /\ LET b0 == [i \in 0..(buflen - 1) |-> IF i = 0 THEN KEY_NULL ELSE Indet]
           L0 == [buf |-> b0, buflen |-> buflen - 1, plen |-> plen,
                  pos |-> 0, oldcolpos |-> 0, len |-> 0, cols |-> cols,
                  maxrows |-> 0, history_index |-> 0,
                  shown |-> NoShown,
                  view |-> [NoView EXCEPT !.col = plen],
                  cur |-> TermWrite(TermHome, plen, cols),
                  top |-> 0, forward |-> -1,
                  prior |-> IF track
                            THEN [history |-> history, len |-> history_len]
                            ELSE NoPrior,
                  lc |-> << >>, i |-> 0]
       IN  IF wok
           THEN /\ pc' = "edit"
                /\ l' = L0
                /\ ret' = NoRet
                /\ rawmode' = 1
                /\ restore' = "none"
                /\ input' = << >>
           ELSE /\ pc' = "idle"
                /\ l' = NoSession
                /\ ret' = Return(-1, b0, "EIO")
                /\ \E rok \in BOOLEAN :
                      /\ rawmode' = disableRawMode(1, rok)
                      /\ restore' = IF rok THEN "ok" ELSE "failed"
                /\ input' = << >>
    /\ op' = Call("EditStart", << >>, 0)
    /\ adds' = Forgotten
    /\ snap' = NoSnap
    /\ nav' = NoNav
    /\ UNCHANGED <<history_max_len, mlmode, encoding, completionCallback>>

\* a session on a terminal of cols columns, its prompt plen characters
EditStartWith(buflen, bound, wok, cols, plen) ==
    EditStartTracking(buflen, bound, wok, cols, plen, FALSE)

\* a session on a terminal of DefaultColumns columns, its prompt PromptLen
\* characters
EditStart(buflen, bound, wok) ==
    EditStartWith(buflen, bound, wok, DefaultColumns, PromptLen)

\* where the loop is once a handler has left the session state L: at its top,
\* or still inside a refresh whose window has wrapped
After(L) == IF L.view.wrapped THEN "hung" ELSE "edit"

\* The iteration reads its bytes and runs the handler name, which returns to
\* the top of the loop with the session state L.
Continue(name, L) ==
    /\ \E s \in Streams(name) :
          /\ op' = Call(name, ReadKeys(s), 0)
          /\ input' = Unread(s)
    /\ pc' = After(L)
    /\ l' = L
    /\ snap' = NoSnap
    /\ nav' = NoNav
    /\ UNCHANGED <<history, history_len, history_max_len, ret, adds, rawmode, restore, mlmode, encoding, completionCallback>>

\* linenoiseEdit() returns count after it has read the bytes keys, with
\* history_len decremented by dec and errno left as err; unread is the input
\* it has not read.
EditReturn(name, keys, unread, count, err, dec) ==
    /\ pc' = "idle"
    /\ l' = NoSession
    /\ ret' = Return(count, l.buf, err)
    /\ history_len' = history_len - dec
    /\ history' = SubSeq(history, 1, history_len - dec)
    /\ op' = Call(name, keys, count)
    /\ LeaveRawMode(unread)
    /\ snap' = NoSnap
    /\ nav' = NoNav
    /\ UNCHANGED <<history_max_len, adds, mlmode, encoding, completionCallback>>

\* The iteration reads its bytes and runs the handler name, which makes
\* linenoiseEdit() return count.
Leave(name, count, err, dec) ==
    \E s \in Streams(name) : EditReturn(name, ReadKeys(s), Unread(s), count, err, dec)

\* readCode() returns no byte: nread <= 0.  After completeLine() has handed
\* a byte to the switch the loop reads none before it has run the handler.
EditReadFail ==
    /\ pc = "edit"
    /\ op.name \notin {"CompleteEsc", "CompleteKey"}
    /\ \E err \in {"none", "EIO"} :
          EditReturn("ReadFail", << >>, input, l.len, err, 0)

\* case ENTER, LINE_FEED
EditEnter ==
    /\ pc = "edit"
    /\ "Enter" \in Handlers
    /\ Leave("Enter", (IF mlmode # 0 THEN linenoiseEditMoveEnd(l) ELSE l).len, "none", 1)

\* case CTRL_C
EditCtrlC ==
    /\ pc = "edit"
    /\ "CtrlC" \in Handlers
    /\ Leave("CtrlC", -1, "EAGAIN", 0)

\* case CTRL_D
EditCtrlD ==
    /\ pc = "edit"
    /\ "CtrlD" \in Handlers
    /\ IF l.len > 0
       THEN Continue("CtrlD", linenoiseEditDelete(l))
       ELSE Leave("CtrlD", -1, "none", 1)

\* the Delete key, ESC [ 3 ~
EditDelete ==
    /\ pc = "edit"
    /\ "Delete" \in Handlers
    /\ Continue("Delete", linenoiseEditDelete(l))

\* case BACKSPACE, 8
EditBackspace ==
    /\ pc = "edit"
    /\ "Backspace" \in Handlers
    /\ pc' = "edit"
    /\ l' = linenoiseEditBackspace(l)
    /\ \E s \in Streams("Backspace") :
          /\ op' = Call("Backspace", ReadKeys(s), 0)
          /\ input' = Unread(s)
    /\ snap' = IF op.name = "Insert" THEN snap ELSE NoSnap
    /\ nav' = NoNav
    /\ UNCHANGED <<history, history_len, history_max_len, ret, adds, rawmode, restore, mlmode, encoding, completionCallback>>

\* default: the byte read is inserted
EditInsert(c, wok) ==
    /\ pc = "edit"
    /\ \E s \in Streams("Insert") :
          /\ s[1] = c
          /\ LET r == linenoiseEditInsert(l, <<c>>, wok)
             IN  IF r.rc # 0
                 THEN EditReturn("Insert", <<c>>, Unread(s), -1, "EIO", 0)
                 ELSE /\ pc' = After(r.l)
                      /\ l' = r.l
                      /\ op' = Call("Insert", <<c>>, 0)
                      /\ input' = Unread(s)
                      /\ snap' = [buf |-> Prefix(l.buf, l.len), len |-> l.len,
                                  pos |-> l.pos, taken |-> TRUE]
                      /\ nav' = NoNav
                      /\ UNCHANGED <<history, history_len, history_max_len, ret,
                                     adds, rawmode, restore, mlmode, encoding, completionCallback>>

\* default, with the readCode() of the multi-byte encoding: the two bytes of
\* WideChar are read as one character and inserted
EditInsertWide(wok) ==
    /\ pc = "edit"
    /\ encoding # "default"
    /\ input = << >>
    /\ LET r == linenoiseEditInsert(l, WideChar, wok)
       IN  IF r.rc # 0
           THEN EditReturn("Insert", WideChar, << >>, -1, "EIO", 0)
           ELSE /\ pc' = After(r.l)
                /\ l' = r.l
                /\ op' = Call("Insert", WideChar, 0)
                /\ input' = << >>
                /\ snap' = NoSnap
                /\ nav' = NoNav
                /\ UNCHANGED <<history, history_len, history_max_len, ret,
                               adds, rawmode, restore, mlmode, encoding, completionCallback>>

\* case CTRL_T
EditTransposeKey ==
    /\ pc = "edit"
    /\ "Transpose" \in Handlers
    /\ Continue("Transpose", EditTranspose(l))

EditMoveLeft ==
    /\ pc = "edit"
    /\ "MoveLeft" \in Handlers
    /\ Continue("MoveLeft", linenoiseEditMoveLeft(l))

EditMoveRight ==
    /\ pc = "edit"
    /\ "MoveRight" \in Handlers
    /\ Continue("MoveRight", linenoiseEditMoveRight(l))

EditMoveHome ==
    /\ pc = "edit"
    /\ "MoveHome" \in Handlers
    /\ Continue("MoveHome", linenoiseEditMoveHome(l))

EditMoveEnd ==
    /\ pc = "edit"
    /\ "MoveEnd" \in Handlers
    /\ Continue("MoveEnd", linenoiseEditMoveEnd(l))

\* ESC f
EditMoveWordEnd ==
    /\ pc = "edit"
    /\ "MoveWordEnd" \in Handlers
    /\ Continue("MoveWordEnd", linenoiseEditMoveWordEnd(l))

\* ESC b.  pre is the byte in front of the buffer; once the cursor has left
\* the buffer, what the program does next is undefined.
EditMoveWordStart(pre, k) ==
    /\ pc = "edit"
    /\ "MoveWordStart" \in Handlers
    /\ \E s \in Streams("MoveWordStart") :
          /\ op' = Call("MoveWordStart", ReadKeys(s), 0)
          /\ input' = Unread(s)
    /\ LET L1 == linenoiseEditMoveWordStart(l, pre, k)
       IN  /\ l' = L1
           /\ pc' = IF L1.pos > L1.len THEN "undef" ELSE After(L1)
    /\ snap' = NoSnap
    /\ nav' = NoNav
    /\ UNCHANGED <<history, history_len, history_max_len, ret, adds, rawmode, restore, mlmode, encoding, completionCallback>>

\* case CTRL_W
EditDeletePrevWord ==
    /\ pc = "edit"
    /\ "DeletePrevWord" \in Handlers
    /\ Continue("DeletePrevWord", linenoiseEditDeletePrevWord(l))

\* ESC d, ESC [ d
EditDeleteNextWord ==
    /\ pc = "edit"
    /\ "DeleteNextWord" \in Handlers
    /\ Continue("DeleteNextWord", linenoiseEditDeleteNextWord(l))

\* case CTRL_U
EditKillLineKey ==
    /\ pc = "edit"
    /\ "KillLine" \in Handlers
    /\ Continue("KillLine", EditKillLine(l))

\* case CTRL_K
EditKillToEndKey ==
    /\ pc = "edit"
    /\ "KillToEnd" \in Handlers
    /\ Continue("KillToEnd", EditKillToEnd(l))

\* case CTRL_L: linenoiseClearScreen() and a refresh
EditClearScreen ==
    /\ pc = "edit"
    /\ "ClearScreen" \in Handlers
    /\ Continue("ClearScreen", refreshLine(l))

\* an escape sequence that selects no handler
EditEscapeIgnored ==
    /\ pc = "edit"
    /\ "None" \in Handlers
    /\ Continue("None", l)

\* nav after a history key: a run starts with "previous" pressed on the live
\* line (history_index 0), goes on with further presses of "previous" and
\* then with presses of "next", no more of these than of those.
NavAfter(dir) ==
    IF dir = LINENOISE_HISTORY_PREV
    THEN IF nav.up = 0 /\ l.history_index = 0
         THEN [live |-> Prefix(l.buf, l.len), up |-> 1, down |-> 0]
         ELSE IF nav.up > 0 /\ nav.up < MaxNav /\ nav.down = 0
         THEN [nav EXCEPT !.up = nav.up + 1]
         ELSE NoNav
    ELSE IF nav.up > 0 /\ nav.down < nav.up
         THEN [nav EXCEPT !.down = nav.down + 1]
         ELSE NoNav

\* Ctrl-P, Ctrl-N, the arrows up and down
EditHistory(dir) ==
    /\ pc = "edit"
    /\ LET name == IF dir = LINENOISE_HISTORY_PREV THEN "HistoryPrev" ELSE "HistoryNext"
           r == linenoiseEditHistoryNext(l, history, history_len, dir)
       IN  /\ l' = r.l
           /\ history' = r.history
           /\ \E s \in Streams(name) :
                 /\ op' = Call(name, ReadKeys(s), 0)
                 /\ input' = Unread(s)
           /\ pc' = After(r.l)
    /\ snap' = NoSnap
    /\ nav' = NavAfter(dir)
    /\ UNCHANGED <<history_len, history_max_len, ret, adds, rawmode, restore, mlmode, encoding, completionCallback>>

---------------------------------------------------------------------------
(* Completion *)
(* completeLine() runs inside one iteration of the loop of linenoiseEdit()   *)
(* and reads keys of its own: the model follows it from read to read, pc     *)
(* "complete" while it waits for a key.  The byte that ends it is handed to  *)
(* the switch of linenoiseEdit(): it stays at the head of input, where the   *)
(* handlers find it.                                                         *)

\* the strings a callback hands to linenoiseAddCompletion(): 'a' repeated,
\* up to one byte more than the line buffer is long
MaxCand == MaxLine + 1

Candidates == {[k \in 1..n |-> 97] : n \in 1..MaxCand}

\* the lists of candidates a callback returns in lc
CandidateLists ==
    UNION {[1..n -> Candidates] : n \in 0..MaxCands}

\* the array lc.cvec[i] that holds the string s
CandidateBuf(s) == [k \in 0..Len(s) |-> IF k < Len(s) THEN s[k + 1] ELSE KEY_NULL]

\* The top of the loop of completeLine(): the candidate L.i is rendered in
\* place of the buffer and buf, len and pos are put back, or the buffer
\* itself is rendered once i has run past the last candidate.
ShowCandidate(L) ==
    IF L.i < Len(L.lc)
    THEN [refreshLine([L EXCEPT !.buf = CandidateBuf(L.lc[L.i + 1]),
                                !.len = Len(L.lc[L.i + 1]),
                                !.pos = Len(L.lc[L.i + 1])])
            EXCEPT !.buf = L.buf, !.len = L.len, !.pos = L.pos]
    ELSE refreshLine(L)

\* default of completeLine()'s switch: the candidate previewed is written
\* to the buffer with snprintf(), len and pos are set to what it returns
CompleteCommit(L) ==
    IF L.i < Len(L.lc)
    THEN LET w == snprintf(L.buf, L.buflen, L.lc[L.i + 1])
         IN  [L EXCEPT !.buf = w.buf, !.len = w.rc, !.pos = w.rc]
    ELSE L

\* case ESC of completeLine()'s switch: the buffer is rendered again when a
\* candidate was previewed
CompleteCancel(L) == IF L.i < Len(L.lc) THEN refreshLine(L) ELSE L

\* the byte streams a read finds: the unread bytes if there are any, else
\* one of typed
Pending(typed) == IF input # << >> THEN {input} ELSE typed

\* what the user types to leave the completion: the keys of the handlers
\* names
CompletionTyped(names) == UNION {KeysOf[h] : h \in names}

\* where completeLine() is once it has rendered L
AfterPreview(L) == IF L.view.wrapped THEN "hung" ELSE "complete"

\* linenoiseSetCompletionCallback(fn)
SetCompletionCallback ==
    /\ pc = "idle"
    /\ completionCallback' = TRUE
    /\ op' = Call("SetCompletionCallback", << >>, 0)
    /\ snap' = NoSnap
    /\ UNCHANGED <<pc, l, history, history_len, history_max_len, ret, adds,
                   rawmode, restore, input, nav, mlmode, encoding>>

\* The loop reads a TAB with a callback registered and calls completeLine()
\* (readCode() of the default encoding), the callback returns the candidates
\* lc.  With no candidate completeLine() beeps and the loop continues; else
\* the first candidate is previewed.  snap keeps the line as it is before
\* the TAB.
EditTab(lc) ==
    /\ pc = "edit"
    /\ completionCallback
    /\ encoding = "default"
    /\ \E s \in Pending({<<TAB>>}) :
          /\ s[1] = TAB
          /\ input' = Tail(s)
    /\ op' = Call("Tab", <<TAB>>, 0)
    /\ IF lc = << >>
       THEN /\ pc' = "edit"
            /\ l' = l
       ELSE /\ pc' = AfterPreview(ShowCandidate([l EXCEPT !.lc = lc, !.i = 0]))
            /\ l' = ShowCandidate([l EXCEPT !.lc = lc, !.i = 0])
    /\ snap' = [buf |-> Prefix(l.buf, l.len), len |-> l.len, pos |-> l.pos,
                taken |-> TRUE]
    /\ nav' = NoNav
    /\ UNCHANGED <<history, history_len, history_max_len, ret, adds, rawmode,
                   restore, mlmode, encoding, completionCallback>>

\* case TAB of completeLine(): the next candidate, or the buffer after the
\* last one, is previewed
CompleteTab ==
    /\ pc = "complete"
    /\ \E s \in Pending({<<TAB>>}) :
          /\ s[1] = TAB
          /\ input' = Tail(s)
    /\ op' = Call("CompleteTab", <<TAB>>, 0)
    /\ pc' = AfterPreview(ShowCandidate([l EXCEPT !.i = (l.i + 1) % (Len(l.lc) + 1)]))
    /\ l' = ShowCandidate([l EXCEPT !.i = (l.i + 1) % (Len(l.lc) + 1)])
    /\ nav' = NoNav
    /\ UNCHANGED <<history, history_len, history_max_len, ret, adds, rawmode,
                   restore, snap, mlmode, encoding, completionCallback>>

\* completeLine() has read the byte that ends it and returns with the
\* session state L; freeCompletions() has freed lc.  The byte is the one the
\* switch of linenoiseEdit() takes next, s the stream it came from.  Once
\* len has left the buffer what the handlers do with it is undefined.
CompleteReturn(name, s, L) ==
    /\ l' = [L EXCEPT !.lc = << >>, !.i = 0]
    /\ pc' = IF L.len > L.buflen THEN "undef" ELSE After(L)
    /\ op' = Call(name, <<s[1]>>, 0)
    /\ input' = s
    /\ nav' = NoNav
    /\ UNCHANGED <<history, history_len, history_max_len, ret, adds, rawmode,
                   restore, snap, mlmode, encoding, completionCallback>>

\* case ESC of completeLine(): the user leaves the completion with an ESC,
\* alone or the first byte of a key's sequence
CompleteEsc(names) ==
    /\ pc = "complete"
    /\ \E s \in Pending(CompletionTyped(names)) :
          /\ s[1] = ESC
          /\ CompleteReturn("CompleteEsc", s, CompleteCancel(l))

\* default of completeLine(): the user leaves the completion with another
\* key
CompleteKey(names) ==
    /\ pc = "complete"
    /\ \E s \in Pending(CompletionTyped(names)) :
          /\ s[1] # ESC
          /\ s[1] # TAB
          /\ CompleteReturn("CompleteKey", s, CompleteCommit(l))

\* readCode() of completeLine() returns no byte: c is set to -1 and
\* linenoiseEdit() returns l.len
CompleteReadFail ==
    /\ pc = "complete"
    /\ \E err \in {"none", "EIO"} :
          EditReturn("CompleteReadFail", << >>, input, l.len, err, 0)

---------------------------------------------------------------------------
(* Specifications *)

\* the keys that go back to the top of the loop, chars the printable bytes
\* read
EditKeys(chars) ==
    \/ EditDelete
    \/ EditBackspace
    \/ \E c \in chars, wok \in BOOLEAN : EditInsert(c, wok)
    \/ \E dir \in {LINENOISE_HISTORY_NEXT, LINENOISE_HISTORY_PREV} : EditHistory(dir)
    \/ EditTransposeKey
    \/ EditMoveLeft
    \/ EditMoveRight
    \/ EditMoveHome
    \/ EditMoveEnd
    \/ EditMoveWordEnd
    \/ \E pre \in {97, SPACE}, k \in 1..MaxUnder : EditMoveWordStart(pre, k)
    \/ EditDeletePrevWord
    \/ EditDeleteNextWord
    \/ EditKillLineKey
    \/ EditKillToEndKey
    \/ EditClearScreen
    \/ EditEscapeIgnored

\* the ways a session ends
EditEnds ==
    \/ EditReadFail
    \/ EditEnter
    \/ EditCtrlC
    \/ EditCtrlD

\* The program with its history: the application adds lines, sets the
\* capacity and reads lines; the user types 'a', Backspace, Ctrl-B, Ctrl-U,
\* walks through the history and ends the session in each of its ways.
Next ==
    \/ \E line \in AddLines : HistoryAddCall(line, MaxHist)
    \/ \E n \in 0..MaxSetLen : HistorySetMaxLenCall(n)
    \/ EnableRawModeFail
    \/ \E wok \in BOOLEAN : EditStart(MaxLine, MaxHist, wok)
    \/ EditBackspace
    \/ \E c \in {97}, wok \in BOOLEAN : EditInsert(c, wok)
    \/ EditMoveLeft
    \/ EditKillLineKey
    \/ \E dir \in {LINENOISE_HISTORY_NEXT, LINENOISE_HISTORY_PREV} : EditHistory(dir)
    \/ EditEnds

Spec == Init /\ [][Next]_vars

\* The editor alone: sessions of an application that adds no line to the
\* history, the user typing every key.
NextEdit ==
    \/ EnableRawModeFail
    \/ \E wok \in BOOLEAN : EditStart(MaxLineEdit, MaxHist, wok)
    \/ EditKeys(Printable)
    \/ EditEnds

SpecEdit == Init /\ [][NextEdit]_vars

\* The render engine: one session in either mode on one of the terminals of
\* Terminals, the user typing 'a', Backspace, Ctrl-B and Ctrl-U.
NextRender ==
    \/ \E ml \in {0, 1} : SetMultiLine(ml)
    \/ \E t \in Terminals, wok \in BOOLEAN :
          EditStartWith(t.buflen, MaxHist, wok, t.cols, t.plen)
    \/ \E wok \in BOOLEAN : EditInsert(97, wok)
    \/ EditBackspace
    \/ EditMoveLeft
    \/ EditKillLineKey

SpecRender == Init /\ [][NextRender]_vars

\* The editor under either encoding: the application may set the multi-byte
\* encoding, and the user types 'a', ' ' and the two-byte character, moves by
\* characters and by words, deletes characters and words and transposes.
NextEnc ==
    \/ SetEncodingFunctions("multibyte")
    \/ \E wok \in BOOLEAN : EditStart(MaxLineEnc, MaxHist, wok)
    \/ \E c \in Chars, wok \in BOOLEAN : EditInsert(c, wok)
    \/ \E wok \in BOOLEAN : EditInsertWide(wok)
    \/ EditMoveLeft
    \/ EditMoveRight
    \/ EditBackspace
    \/ EditDelete
    \/ EditTransposeKey
    \/ EditMoveWordEnd
    \/ \E pre \in {97, SPACE}, k \in 1..MaxUnder : EditMoveWordStart(pre, k)
    \/ EditDeletePrevWord
    \/ EditDeleteNextWord

SpecEnc == Init /\ [][NextEnc]_vars

\* The history store across sessions: the application adds lines and sets
\* the capacity; in the sessions the user types 'a' and Backspace, walks
\* through no history, and ends the session in each of its ways.
NextStore ==
    \/ \E line \in AddLines : HistoryAddCall(line, MaxHist)
    \/ \E n \in 0..MaxSetLen : HistorySetMaxLenCall(n)
    \/ \E wok \in BOOLEAN :
          EditStartTracking(MaxLine, MaxHist, wok, DefaultColumns, PromptLen, TRUE)
    \/ EditBackspace
    \/ \E wok \in BOOLEAN : EditInsert(97, wok)
    \/ EditEnds

SpecStore == Init /\ [][NextStore]_vars

\* the handlers of the keys typed in the specification SpecComplete
CompleteHandlers == {"Insert", "Backspace", "MoveLeft", "None", "Enter", "CtrlC"}

\* Completion: the application registers a callback that returns up to
\* MaxCands candidates; the user presses Tab, cycles, leaves the completion
\* with ESC or another key, types 'a' and ' ', Backspace, the arrow left,
\* and ends the session.
NextComplete ==
    \/ SetCompletionCallback
    \/ \E wok \in BOOLEAN : EditStart(MaxLine, MaxHist, wok)
    \/ \E lc \in CandidateLists : EditTab(lc)
    \/ CompleteTab
    \/ CompleteEsc(CompleteHandlers)
    \/ CompleteKey(CompleteHandlers)
    \/ CompleteReadFail
    \/ \E c \in Chars, wok \in BOOLEAN : EditInsert(c, wok)
    \/ EditBackspace
    \/ EditMoveLeft
    \/ EditEscapeIgnored
    \/ EditEnds

SpecComplete == Init /\ [][NextComplete]_vars

NextHist ==
    \/ \E line \in AddLines : HistoryAddCall(line, MaxHistApi)
    \/ \E n \in 0..MaxSetLen : HistorySetMaxLenCall(n)

SpecHist == Init /\ [][NextHist]_vars

---------------------------------------------------------------------------
(* Properties *)

\* the capacity of the line buffer: linenoiseEdit() keeps one byte of it for
\* the terminator (l.buflen--)
Capacity == l.buflen + 1

\* the edited line: the first l.len bytes of the buffer
Content == Prefix(l.buf, l.len)

\* C1: after every operation of a session (Insert, Delete, Backspace and
\* the cursor motions, word motions among them) that started with an empty
\* buffer, cursor <= length < capacity.
C1_CursorWithinLength ==
    pc \in {"edit", "undef"} => (l.pos <= l.len /\ l.len < Capacity)

\* C2: after every mutating operation the buffer is terminated at its
\* length: buf[len] is the NUL byte.
C2_NullTerminated ==
    pc = "edit" => l.buf[l.len] = KEY_NULL

\* C3: the line returned when Enter ends the session is exactly the first
\* len bytes of the edit buffer.
C3_EnterReturnsContent ==
    [][(pc = "edit" /\ op'.name = "Enter") =>
          (ret'.kind = "line" /\ ret'.line = Content)]_vars

\* C4 as claimed: Insert of one character at any cursor position followed
\* immediately by Backspace restores content, length and cursor.
C4_InsertBackspaceAlways ==
    [][(pc = "edit" /\ op.name = "Insert" /\ op'.name = "Backspace") =>
          (Content' = snap.buf /\ l'.len = snap.len /\ l'.pos = snap.pos)]_vars

\* C4 as amended: Insert of one character that fits (length + 1 < capacity)
\* at any cursor position followed immediately by Backspace restores the
\* first length bytes of the buffer, the length and the cursor, and the
\* buffer is terminated at its length.
C4_InsertBackspaceRoundTrip ==
    [][(pc = "edit" /\ op.name = "Insert" /\ op'.name = "Backspace"
        /\ snap.len + 1 < Capacity) =>
          (/\ Content' = snap.buf
           /\ l'.len = snap.len
           /\ l'.pos = snap.pos
           /\ l'.buf[l'.len] = KEY_NULL)]_vars

\* C4 witness: an Insert in the middle of the line was undone by Backspace.
C4_Witness ==
    /\ pc = "edit"
    /\ op.name = "Backspace"
    /\ snap.taken
    /\ snap.pos > 0 /\ snap.pos < snap.len
    /\ l.pos = snap.pos /\ l.len = snap.len /\ Content = snap.buf

\* C5: an Insert that would take the length beyond capacity - 1 changes
\* neither buffer nor length nor cursor, returns no error and the session
\* goes on.
C5_InsertAtCapacityIsNoOp ==
    [][(pc = "edit" /\ op'.name = "Insert" /\ l.len + Len(op'.arg) > Capacity - 1) =>
          (l' = l /\ pc' = "edit" /\ ret' = ret /\ op'.rc = 0)]_vars

\* C5 witness: an Insert was tried on a full buffer with the cursor inside
\* the line, and the session goes on with the buffer full.
C5_Witness ==
    /\ pc = "edit"
    /\ op.name = "Insert"
    /\ snap.taken /\ snap.len = Capacity - 1 /\ snap.pos < snap.len
    /\ l.len = Capacity - 1

\* the newest entry of the history
Newest == history[history_len]

\* C6: adding the line that is the newest entry leaves the store as it is,
\* adding any other line (one equal to an older entry too) makes it the
\* newest entry; on the empty store Add(x), Add(x) gives the one entry x and
\* Add(x), Add(y), Add(x) gives the three entries x, y, x.
C6_AdjacentDuplicates ==
    /\ [](\A x, y \in AddLines :
            /\ adds = <<x, x>> => (history = <<x>> /\ history_len = 1)
            /\ (adds = <<x, y, x>> /\ x # y) => (history = <<x, y, x>> /\ history_len = 3))
    /\ [][(pc = "idle" /\ op'.name = "HistoryAdd") =>
            IF history_len > 0 /\ Newest = op'.arg
            THEN UNCHANGED <<history, history_len, history_max_len>>
            ELSE /\ history_len' = Min(history_len + 1, history_max_len)
                 /\ history'[history_len'] = op'.arg
                 /\ Len(history') = history_len']_vars

\* C6 witness: x, y, x were added to the empty store and all three are kept.
C6_Witness ==
    /\ adds = << <<97>>, <<98>>, <<97>> >>
    /\ history = adds
    /\ op.name = "HistoryAdd"

\* C7: no two adjacent entries of the history are equal, in any state.
C7_NoAdjacentEqual ==
    \A i \in 1..(history_len - 1) : history[i] # history[i + 1]

\* C8: 0 <= history_len <= history_max_len in every state.
C8_HistoryLenWithinMax ==
    /\ 0 <= history_len
    /\ history_len <= history_max_len
    /\ Len(history) = history_len

\* C8 witness: a session on a full store that walked back to the oldest
\* entry.
C8_Witness ==
    /\ pc = "edit"
    /\ op.name = "HistoryPrev"
    /\ history_len = history_max_len
    /\ history_len >= 2
    /\ l.history_index = history_len - 1

\* C9: adding a line that differs from the newest entry to a full store
\* drops the oldest entry, keeps the others in their order and makes the
\* line the newest entry; the length stays history_max_len.
C9_AddAtCapacityEvictsOldest ==
    [][(pc = "idle" /\ op'.name = "HistoryAdd"
        /\ history_len = history_max_len /\ Newest # op'.arg) =>
          (/\ history' = Append(Tail(history), op'.arg)
           /\ history_len' = history_max_len
           /\ history_max_len' = history_max_len)]_vars

\* C9 witness: a line was added to a full store of two or more entries.
C9_Witness ==
    /\ op.name = "HistoryAdd" /\ op.rc = 1
    /\ op.pre = history_max_len
    /\ history_len = history_max_len
    /\ history_len >= 2
    /\ Newest = op.arg

\* C10: SetMaxLen(n), n >= 1, keeps the newest n entries in their order when
\* the store holds more than n and all entries otherwise, and makes n the
\* capacity.
C10_SetMaxLenKeepsNewest ==
    [][(pc = "idle" /\ op'.name = "HistorySetMaxLen" /\ op'.arg[1] >= 1) =>
          LET n == op'.arg[1] IN
          /\ history' = IF history_len > n
                        THEN SubSeq(history, history_len - n + 1, history_len)
                        ELSE history
          /\ history_len' = Min(history_len, n)
          /\ history_max_len' = n
          /\ op'.rc = 1]_vars

\* C10 witness: a store of more than n >= 2 entries was cut to n.
C10_Witness ==
    /\ op.name = "HistorySetMaxLen" /\ op.rc = 1
    /\ op.arg[1] >= 2
    /\ op.pre > op.arg[1]
    /\ history_len = op.arg[1]

\* C11: in a session with one or more prior history entries, pressing
\* "previous" j times and then "next" j times, nothing else in between,
\* brings the buffer back to the line the run started from, with the cursor
\* at its end.
C11_NavigationRoundTrip ==
    (pc = "edit" /\ history_len > 1 /\ nav.up > 0 /\ nav.down = nav.up) =>
        (Content = nav.live /\ l.pos = l.len)

\* the step is a press of a history key
NavigationStep == pc = "edit" /\ op'.name \in {"HistoryPrev", "HistoryNext"}

\* C12: a history key pressed at the boundary it moves towards (the oldest
\* entry for "previous", the live line for "next"), or with at most one
\* entry in the store, changes nothing: buffer, cursor, history index and
\* the entries of the store stay as they are.  (The scratch slot, the newest
\* one, is left out of the comparison.)
C12_ClampedNavigationIsNoOp ==
    [][(/\ NavigationStep
        /\ \/ history_len <= 1
           \/ op'.name = "HistoryPrev" /\ l.history_index >= history_len - 1
           \/ op'.name = "HistoryNext" /\ l.history_index = 0) =>
          (/\ l' = l
           /\ history_len' = history_len
           /\ SubSeq(history', 1, history_len - 1) = SubSeq(history, 1, history_len - 1))]_vars

Without(s, i) == SubSeq(s, 1, i - 1) \o SubSeq(s, i + 1, Len(s))

\* C14: Ctrl-D read at the top of the loop deletes the character at the
\* cursor when the buffer is not empty (and changes nothing when the cursor
\* is at the end), the session going on; on an empty buffer it ends the
\* session: linenoise() returns no line, and not as an interrupt.
C14_CtrlD ==
    [][(pc = "edit" /\ Len(op'.arg) > 0 /\ op'.arg[1] = CTRL_D) =>
          /\ op'.arg = <<CTRL_D>>
          /\ IF l.len > 0
             THEN /\ pc' = "edit"
                  /\ ret' = ret
                  /\ IF l.pos < l.len
                     THEN /\ Content' = Without(Content, l.pos + 1)
                          /\ l'.len = l.len - 1
                          /\ l'.pos = l.pos
                          /\ l'.buf[l'.len] = KEY_NULL
                     ELSE l' = l
             ELSE /\ pc' = "idle"
                  /\ ret'.kind = "null"
                  /\ ret'.line = << >>
                  /\ ret'.errno # "EAGAIN"]_vars

\* C14 witness: Ctrl-D was read with the cursor inside the line, and
\* characters are left on both sides of the cursor.
C14_Witness ==
    /\ pc = "edit"
    /\ op.arg = <<CTRL_D>>
    /\ l.pos > 0 /\ l.pos < l.len

\* C15: Ctrl-C read at the top of the loop ends the session at once,
\* whatever the buffer, the cursor and the history index are: the loop reads
\* no byte after it, linenoise() returns no line and errno is EAGAIN.
C15_CtrlCInterrupts ==
    [][(pc = "edit" /\ Len(op'.arg) > 0 /\ op'.arg[1] = CTRL_C) =>
          /\ op'.arg = <<CTRL_C>>
          /\ pc' = "idle"
          /\ ret'.kind = "null"
          /\ ret'.line = << >>
          /\ ret'.errno = "EAGAIN"]_vars

\* C15 witness: Ctrl-C ended a session, and the 'a' typed behind it is still
\* unread.
C15_Witness ==
    /\ pc = "idle"
    /\ op.arg = <<CTRL_C>>
    /\ ret.kind = "null" /\ ret.errno = "EAGAIN"
    /\ input = <<97>>

\* C16: when the read of the next byte fails or finds the end of the stream
\* the session ends and linenoise() does not return the buffer as a line.
C16_ReadFailureReturnsNoLine ==
    [][(pc = "edit" /\ op'.name = "ReadFail") => ret'.kind # "line"]_vars

\* C17: the loop runs in raw mode, and on every way out of the session
\* (Enter, Ctrl-C, Ctrl-D on the empty buffer, a failed read, a failed
\* write) disableRawMode() runs before linenoise() returns: when its
\* tcsetattr() succeeds, rawmode is 0 at the return.
C17_RawModeReleased ==
    /\ [](pc = "edit" => rawmode = 1)
    /\ [][(pc' = "idle" /\ (pc = "edit" \/ op'.name = "EditStart")) =>
            (restore' # "none" /\ (restore' = "ok" => rawmode' = 0))]_vars

\* C17 witness: a session ended by a failed write() of an inserted
\* character, and the terminal was put back.
C17_Witness ==
    /\ pc = "idle"
    /\ op.name = "Insert"
    /\ ret.kind = "null"
    /\ restore = "ok"
    /\ rawmode = 0

\* the step reads ESC [ and a third byte
EscBracketStep ==
    pc = "edit" /\ Len(op'.arg) >= 3 /\ op'.arg[1] = ESC /\ op'.arg[2] = 91

\* C18: after ESC [ the next byte selects a cursor motion: A history
\* previous, B history next, C right, D left, H or 1 home, F or 4 end,
\* d delete next word; each of these bytes runs its action.
C18_EscBracketKeys ==
    [][EscBracketStep =>
          LET b == op'.arg[3]
              prev == linenoiseEditHistoryNext(l, history, history_len, LINENOISE_HISTORY_PREV)
              next == linenoiseEditHistoryNext(l, history, history_len, LINENOISE_HISTORY_NEXT)
          IN  /\ b = 65 => (l' = prev.l /\ history' = prev.history)
              /\ b = 66 => (l' = next.l /\ history' = next.history)
              /\ b = 67 => l' = linenoiseEditMoveRight(l)
              /\ b = 68 => l' = linenoiseEditMoveLeft(l)
              /\ b \in {72, 49} => (l'.pos = 0 /\ l'.len = l.len)
              /\ b \in {70, 52} => (l'.pos = l.len /\ l'.len = l.len)
              /\ b = 100 => l' = linenoiseEditDeleteNextWord(l)]_vars

\* C19: the keypad's ESC O H moves the cursor to the start of the line and
\* ESC O F to its end; the loop reads all three bytes, and none of them is
\* inserted into the buffer.
C19_KeypadHomeEnd ==
    /\ [][(pc = "edit" /\ input = << >>
           /\ op'.arg \o input' \in {<<ESC, 79, 72>>, <<ESC, 79, 70>>}) =>
             (/\ input' = << >>
              /\ l'.pos = IF (op'.arg \o input')[3] = 72 THEN 0 ELSE l.len
              /\ l'.len = l.len
              /\ Content' = Content)]_vars
    /\ [][(pc = "edit" /\ op.arg = <<ESC, 79>> /\ input \in {<<72>>, <<70>>}) =>
             Content' = Content]_vars

C27_WordDeletion ==
    [][(pc = "edit" /\ op'.name \in {"DeletePrevWord", "DeleteNextWord"}) =>
          LET c == Content
              p == l.pos
              n == l.len
          IN  IF op'.name = "DeletePrevWord"
              THEN \E a \in 0..p, m \in 0..p :
                      /\ a <= m
                      /\ \A i \in (m + 1)..p : c[i] = SPACE
                      /\ m = 0 \/ c[m] # SPACE
                      /\ \A i \in (a + 1)..m : c[i] # SPACE
                      /\ a = 0 \/ c[a] = SPACE
                      /\ Content' = SubSeq(c, 1, a) \o SubSeq(c, p + 1, n)
                      /\ l'.pos = a
                      /\ l'.len = n - (p - a)
              ELSE \E m \in p..n, e \in p..n :
                      /\ m <= e
                      /\ \A i \in (p + 1)..m : c[i] = SPACE
                      /\ m = n \/ c[m + 1] # SPACE
                      /\ \A i \in (m + 1)..e : c[i] # SPACE
                      /\ e = n \/ c[e + 1] = SPACE
                      /\ Content' = SubSeq(c, 1, p) \o SubSeq(c, e + 1, n)
                      /\ l'.pos = p
                      /\ l'.len = n - (e - p)]_vars

\* C27 witness: Ctrl-W with the cursor at the end has left a line that ends in
\* a space: the word behind that space and the spaces after it are gone
\* ("a a " has become "a ").
C27_Witness ==
    /\ pc = "edit"
    /\ op.name = "DeletePrevWord"
    /\ l.len >= 2 /\ l.pos = l.len
    /\ l.buf[l.len - 1] = SPACE /\ l.buf[0] = 97

\* C28: ESC f steps over the spaces at the cursor and then over the
\* non-spaces, and stops at the length or at a space behind a non-space;
\* ESC b steps back over the spaces in front of the cursor and then over the
\* non-spaces, and stops at 0 or at a non-space behind a space; neither
\* changes the content, whatever the buffer and the cursor.
C28_WordMotion ==
    [][(pc = "edit" /\ op'.name \in {"MoveWordEnd", "MoveWordStart"}) =>
          LET c == Content
              p == l.pos
              n == l.len
              q == l'.pos
          IN  /\ l'.buf = l.buf /\ l'.len = l.len
              /\ IF op'.name = "MoveWordEnd"
                 THEN \E m \in p..n :
                         /\ m <= q /\ q <= n
                         /\ \A i \in (p + 1)..m : c[i] = SPACE
                         /\ m = n \/ c[m + 1] # SPACE
                         /\ \A i \in (m + 1)..q : c[i] # SPACE
                         /\ q = n \/ (c[q + 1] = SPACE /\ q > 0 /\ c[q] # SPACE)
                 ELSE \E m \in 0..p :
                         /\ 0 <= q /\ q <= m
                         /\ \A i \in (m + 1)..p : c[i] = SPACE
                         /\ m = 0 \/ c[m] # SPACE
                         /\ \A i \in (q + 1)..m : c[i] # SPACE
                         /\ q = 0 \/ (c[q] = SPACE /\ q < n /\ c[q + 1] # SPACE)]_vars

\* C30: ESC b with the cursor at 0 on a non-empty buffer leaves the cursor
\* at 0 (and so reads no byte in front of the buffer).
C30_MoveWordStartAtZero ==
    [][(pc = "edit" /\ op'.name = "MoveWordStart" /\ l.pos = 0 /\ l.len > 0) =>
          (l'.pos = 0 /\ pc' = "edit")]_vars

\* C25: whenever the loop is about to read the next key, the last render (a
\* refresh or the fast path's write) shows the buffer's content and the
\* cursor as they are: no key changes either without rendering the new state.
C25_RenderReflectsState ==
    pc = "edit" => (l.shown.buf = Content /\ l.shown.pos = l.pos)

\* C25 witness: a character was inserted in front of another (a full
\* refresh), a line of two characters or more is on display, and the loop is
\* about to read.
C25_Witness ==
    /\ pc = "edit"
    /\ op.name = "Insert"
    /\ l.pos < l.len /\ l.len >= 2
    /\ l.shown = [buf |-> Content, pos |-> l.pos, by |-> "render", rows |-> 0]

\* the column width of the content, and the prompt's
ContentColumns == columnPos(l.buf, l.len, l.len)

PromptColumns == promptTextColumnLen(l)

\* the loop is at its read in multi-line mode, a refresh behind it
AfterMultiLineRefresh == pc = "edit" /\ mlmode # 0 /\ l.shown.by = "render"

\* a session with no prompt and 25 characters in the buffer on a terminal of
\* 10 columns
ExampleSession ==
    [NoSession EXCEPT !.buf = [i \in 0..25 |-> IF i < 25 THEN 97 ELSE KEY_NULL],
                      !.buflen = 25, !.len = 25, !.pos = 25, !.cols = 10]

\* C23: the rows the multi-line refresh counts for the content are
\* ceil((P + C) / W), P the prompt's width, C the content's and W the
\* terminal's; 3 for P = 0, W = 10, C = 25.
C23_RowCount ==
    AfterMultiLineRefresh =>
        /\ l.shown.rows = (PromptColumns + ContentColumns + l.cols - 1) \div l.cols
        /\ refreshMultiLine(ExampleSession).shown.rows = 3

\* C24: within a session in multi-line mode maxrows never decreases, whatever
\* the keys (those that shorten the buffer among them), and after a refresh it
\* is at least the rows counted for the content just rendered.
C24_MaxRowsMonotone ==
    [][(pc' = "edit" /\ mlmode' # 0) =>
          /\ pc = "edit" => l'.maxrows >= l.maxrows
          /\ l'.shown.by = "render" => l'.maxrows >= l'.shown.rows]_vars

\* C24 witness: the content on display takes fewer rows than were once used.
C24_Witness ==
    /\ AfterMultiLineRefresh
    /\ l.shown.rows >= 1
    /\ l.maxrows >= l.shown.rows + 2

\* C29: after every refresh in multi-line mode the terminal's cursor is on
\* row floor((P + c) / W), counted from the prompt's first row, and on column
\* (P + c) mod W, c being the cursor's column offset in the content; column 0
\* is reached by a bare carriage return, never by a cursor-forward of 0.
C29_CursorAfterRefresh ==
    AfterMultiLineRefresh =>
        LET c == columnPos(l.buf, l.len, l.pos) IN
        /\ l.cur.row = (PromptColumns + c) \div l.cols
        /\ l.cur.col = (PromptColumns + c) % l.cols
        /\ l.forward # 0

\* C22: in single-line mode, when the content is wider than W - P (W the
\* terminal's width, P the prompt's), the window the refresh clips contains
\* the cursor, start <= cursor <= end, and is no wider than W - P.
C22_WindowContainsCursor ==
    (pc \in {"edit", "hung"} /\ mlmode = 0 /\ op.name # "EditStart"
     /\ ContentColumns > l.cols - PromptColumns) =>
        /\ ~l.view.wrapped
        /\ l.view.start <= l.pos
        /\ l.pos <= l.view.start + l.view.len
        /\ l.view.pos = l.pos - l.view.start
        /\ columnPos(BufAt(l.buf, l.view.start), l.view.len, l.view.len)
              <= l.cols - PromptColumns

\* pos is a character boundary of the buffer for the encoding functions in
\* force: the character in front of pos ends at pos, and the character at
\* pos begins at pos
OnBoundary(b, buf_len, pos) ==
    /\ pos <= buf_len
    /\ pos > 0 =>
          LET q == pos - prevCharLen(b, buf_len, pos).len
          IN  q >= 0 /\ q + nextCharLen(b, buf_len, q).len = pos
    /\ pos < buf_len =>
          LET r == pos + nextCharLen(b, buf_len, pos).len
          IN  r <= buf_len /\ r - prevCharLen(b, buf_len, r).len = pos

\* C26: under any encoding, one with characters of two bytes included, the
\* cursor is on a character boundary after every editing operation.
C26_CursorOnBoundary ==
    pc = "edit" => OnBoundary(l.buf, l.len, l.pos)

\* C31: the two clipping loops of the single-line refresh end, whatever the
\* prompt's width and the terminal's, a prompt at least as wide as the
\* terminal included, and leave the window's start at or before the cursor.
C31_ClipLoopsTerminate ==
    /\ pc # "hung"
    /\ (pc = "edit" /\ mlmode = 0 /\ l.shown.by = "render") =>
          (~l.view.wrapped /\ l.view.start <= l.pos)

\* C32: a session that ends by Enter, or by Ctrl-D on an empty buffer, and
\* in which the user walked through no history, leaves the history store,
\* its entries, their order and its length, as the session found it.
C32_StoreUnchangedBySession ==
    [][(pc = "edit" /\ pc' = "idle" /\ op'.name \in {"Enter", "CtrlD"}
        /\ l.prior # NoPrior) =>
           (history' = l.prior.history /\ history_len' = l.prior.len)]_vars

\* C33: when a session ends by Ctrl-C, by a read that fails or finds the end
\* of the stream, or by a failed write on the fast path of an insert, the
\* scratch entry added when the session started is removed: the history is
\* as long as the session found it and holds no text that was never accepted.
C33_ScratchRemovedOnAbort ==
    [][(pc = "edit" /\ pc' = "idle" /\ op'.name \in {"CtrlC", "ReadFail", "Insert"}
        /\ l.prior # NoPrior) =>
           (history_len' = l.prior.len /\ history' = l.prior.history)]_vars

\* a step that ends completeLine() with the key named name
CompletionEnds(name) == pc = "complete" /\ op'.name = name

\* C34: Escape pressed while cycling leaves buffer, length and cursor as they
\* were before Tab was pressed; any other key that is not Tab, pressed while
\* candidate i is previewed, sets the buffer to that candidate (to as much of
\* it as is stored) with cursor = length = the length of the stored content,
\* and cursor <= length < capacity holds whatever the candidate's length.
C34_CompletionOutcome ==
    [][/\ CompletionEnds("CompleteEsc") =>
             /\ Prefix(l'.buf, l'.len) = snap.buf
             /\ l'.len = snap.len
             /\ l'.pos = snap.pos
       /\ (CompletionEnds("CompleteKey") /\ l.i < Len(l.lc)) =>
             /\ CStr(l'.buf) = SubSeq(l.lc[l.i + 1], 1, strlen(l'.buf))
             /\ Len(l.lc[l.i + 1]) < l.buflen => CStr(l'.buf) = l.lc[l.i + 1]
             /\ l'.pos = l'.len
             /\ l'.len = strlen(l'.buf)
             /\ l'.len < l'.buflen + 1]_vars

====
